---- MODULE Spec2Model ----
(***************************************************************************)
(* provider/oauth2/backends.py: the client authentication backends         *)
(* (BasicClientBackend, RequestParamsClientBackend, PublicPasswordBackend)  *)
(* and the access token backend (AccessTokenBackend).                      *)
(*                                                                         *)
(* Python str values are sequences of code points, bytes values are        *)
(* sequences of 0..255, a dict is a set of <<key, value>> pairs and the    *)
(* Python None is the record None.                                         *)
(***************************************************************************)
EXTENDS Integers, Sequences, FiniteSets, TLC

VARIABLES clients, tokens, clock, op, args, ret, exc, at

vars == <<clients, tokens, clock, op, args, ret, exc, at>>

\* The largest clock value the model lets now() reach.
MaxClock == 3

None == [py |-> "None"]

----------------------------------------------------------------------------
(* str and dict helpers                                                    *)

\* ' ', the separator of auth.split(' ')
SPACE == 32
\* ':', the separator of base64_str.split(':')
COLON == 58
\* '=', the base64 padding character
PAD == 61

\* dict.get(key): the value, or None when the key is absent
Has(d, key) == \E p \in d : p[1] = key
Get(d, key) == IF Has(d, key) THEN (CHOOSE p \in d : p[1] = key)[2] ELSE None

\* str.split(sep) for a one-character separator: the list of the pieces
RECURSIVE split(_, _)
split(s, sep) ==
    IF \A i \in 1..Len(s) : s[i] # sep
    THEN <<s>>
    ELSE LET k == CHOOSE i \in 1..Len(s) :
                      s[i] = sep /\ \A j \in 1..(i - 1) : s[j] # sep
         IN  <<SubSeq(s, 1, k - 1)>> \o split(SubSeq(s, k + 1, Len(s)), sep)

----------------------------------------------------------------------------
(* base64 (RFC 4648 standard alphabet), as base64.standard_b64decode and    *)
(* binascii.a2b_base64 compute it                                          *)

B64Alphabet ==
    <<65, 66, 67, 68, 69, 70, 71, 72, 73, 74, 75, 76, 77, 78, 79, 80, 81, 82,
      83, 84, 85, 86, 87, 88, 89, 90, 97, 98, 99, 100, 101, 102, 103, 104,
      105, 106, 107, 108, 109, 110, 111, 112, 113, 114, 115, 116, 117, 118,
      119, 120, 121, 122, 48, 49, 50, 51, 52, 53, 54, 55, 56, 57, 43, 47>>

\* the 6-bit value of a character, 64 for a character outside the alphabet
b64index(ch) ==
    IF \E i \in 1..64 : B64Alphabet[i] = ch
    THEN (CHOOSE i \in 1..64 : B64Alphabet[i] = ch) - 1
    ELSE 64

Ok(v) == [ok |-> TRUE, val |-> v, err |-> ""]
ValueError == [ok |-> FALSE, val |-> <<>>, err |-> "ValueError"]

\* binascii.a2b_base64, not strict: characters outside the alphabet are
\* skipped, a complete pad sequence ends the parse, an incomplete last quad
\* is an error (binascii.Error, a ValueError)
RECURSIVE a2b_base64(_, _, _, _, _, _)
a2b_base64(s, i, quad_pos, leftchar, pads, out) ==
    IF i > Len(s)
    THEN IF quad_pos # 0 THEN ValueError ELSE Ok(out)
    ELSE IF s[i] = PAD
    THEN IF quad_pos >= 2 /\ quad_pos + pads + 1 >= 4
         THEN Ok(out)
         ELSE a2b_base64(s, i + 1, quad_pos, leftchar,
                         IF quad_pos >= 2 THEN pads + 1 ELSE pads, out)
    ELSE LET v == b64index(s[i]) IN
         IF v = 64
         THEN a2b_base64(s, i + 1, quad_pos, leftchar, pads, out)
         ELSE CASE quad_pos = 0 ->
                     a2b_base64(s, i + 1, 1, v, 0, out)
                [] quad_pos = 1 ->
                     a2b_base64(s, i + 1, 2, v % 16, 0,
                                Append(out, leftchar * 4 + (v \div 16)))
                [] quad_pos = 2 ->
                     a2b_base64(s, i + 1, 3, v % 4, 0,
                                Append(out, leftchar * 16 + (v \div 4)))
                [] OTHER ->
                     a2b_base64(s, i + 1, 0, 0, 0,
                                Append(out, leftchar * 64 + v))

\* base64.standard_b64decode(s) of a str: a non-ASCII character is a
\* ValueError, otherwise the bytes a2b_base64 gives
standard_b64decode(s) ==
    IF \E i \in 1..Len(s) : s[i] > 127
    THEN ValueError
    ELSE a2b_base64(s, 1, 0, 0, 0, <<>>)

\* the encoding a client applies to build the header payload
RECURSIVE b64encode(_)
b64encode(b) ==
    LET ch(v) == B64Alphabet[v + 1] IN
    IF Len(b) = 0 THEN <<>>
    ELSE IF Len(b) = 1
    THEN <<ch(b[1] \div 4), ch((b[1] % 4) * 16), PAD, PAD>>
    ELSE IF Len(b) = 2
    THEN <<ch(b[1] \div 4), ch((b[1] % 4) * 16 + (b[2] \div 16)),
           ch((b[2] % 16) * 4), PAD>>
    ELSE <<ch(b[1] \div 4), ch((b[1] % 4) * 16 + (b[2] \div 16)),
           ch((b[2] % 16) * 4 + (b[3] \div 64)), ch(b[3] % 64)>>
         \o b64encode(SubSeq(b, 4, Len(b)))

----------------------------------------------------------------------------
(* UTF-8                                                                   *)

UnicodeDecodeError ==
    [ok |-> FALSE, val |-> <<>>, err |-> "UnicodeDecodeError"]

IsCont(b, i) == i <= Len(b) /\ b[i] >= 128 /\ b[i] <= 191

\* bytes.decode('utf-8'): the code points, or UnicodeDecodeError for a
\* stray continuation byte, a truncated or overlong sequence, a surrogate
\* or a value above U+10FFFF
RECURSIVE utf8_decode(_, _, _)
utf8_decode(b, i, out) ==
    IF i > Len(b) THEN Ok(out)
    ELSE IF b[i] < 128
    THEN utf8_decode(b, i + 1, Append(out, b[i]))
    ELSE IF b[i] >= 194 /\ b[i] <= 223 /\ IsCont(b, i + 1)
    THEN utf8_decode(b, i + 2,
                     Append(out, (b[i] - 192) * 64 + (b[i + 1] - 128)))
    ELSE IF /\ b[i] >= 224 /\ b[i] <= 239
            /\ IsCont(b, i + 1) /\ IsCont(b, i + 2)
            /\ (b[i] = 224 => b[i + 1] >= 160)
            /\ (b[i] = 237 => b[i + 1] <= 159)
    THEN utf8_decode(b, i + 3,
                     Append(out, (b[i] - 224) * 4096 + (b[i + 1] - 128) * 64
                                 + (b[i + 2] - 128)))
    ELSE IF /\ b[i] >= 240 /\ b[i] <= 244
            /\ IsCont(b, i + 1) /\ IsCont(b, i + 2) /\ IsCont(b, i + 3)
            /\ (b[i] = 240 => b[i + 1] >= 144)
            /\ (b[i] = 244 => b[i + 1] <= 143)
    THEN utf8_decode(b, i + 4,
                     Append(out, (b[i] - 240) * 262144
                                 + (b[i + 1] - 128) * 4096
                                 + (b[i + 2] - 128) * 64 + (b[i + 3] - 128)))
    ELSE UnicodeDecodeError

\* str.encode('utf-8') of code points below U+10000, as a client applies it
\* before the base64 encoding
RECURSIVE utf8_encode(_)
utf8_encode(s) ==
    IF Len(s) = 0 THEN <<>>
    ELSE (IF s[1] < 128 THEN <<s[1]>>
          ELSE IF s[1] < 2048
          THEN <<192 + (s[1] \div 64), 128 + (s[1] % 64)>>
          ELSE <<224 + (s[1] \div 4096), 128 + ((s[1] \div 64) % 64),
                 128 + (s[1] % 64)>>)
         \o utf8_encode(Tail(s))

----------------------------------------------------------------------------
(* The stores.  A Client is [client_id, client_secret, client_type]; an    *)
(* AccessToken is [token, client, expires], client being the client_id of   *)
(* the client it was issued to.                                            *)

s_abc == <<97, 98, 99>>
s_b == <<98>>
s_pub1 == <<112, 117, 98, 49>>
s_zzz == <<122, 122, 122>>
s_s3cr3t == <<115, 51, 99, 114, 51, 116>>
\* "p:w", a secret that holds a ':'
s_p_w == <<112, COLON, 119>>
\* "k" + U+00E9 + "y", a secret outside ASCII
s_key == <<107, 233, 121>>
s_tok1 == <<116, 111, 107, 49>>
s_tok2 == <<116, 111, 107, 50>>
s_tok3 == <<116, 111, 107, 51>>
s_x == <<120>>
s_password == <<112, 97, 115, 115, 119, 111, 114, 100>>
s_authorization_code ==
    <<97, 117, 116, 104, 111, 114, 105, 122, 97, 116, 105, 111, 110, 95, 99,
      111, 100, 101>>
s_Basic == <<66, 97, 115, 105, 99>>
s_basic == <<98, 97, 115, 105, 99>>
s_Bearer == <<66, 101, 97, 114, 101, 114>>

Client(id, secret, type) ==
    [client_id |-> id, client_secret |-> secret, client_type |-> type]

ClientA == Client(s_abc, s_s3cr3t, "confidential")
ClientB == Client(s_b, s_p_w, "confidential")
ClientP == Client(s_pub1, s_key, "public")

ClientUniverse == {ClientA, ClientB, ClientP}

AccessToken(token, client, expires) ==
    [token |-> token, client |-> client, expires |-> expires]

TokenUniverse ==
    { AccessToken(s_tok1, s_abc, 2), AccessToken(s_tok1, s_b, 1),
      AccessToken(s_tok2, s_pub1, 4), AccessToken(s_tok3, s_abc, 0) }

\* the tokens issued to the registered clients
TokensOf(store) ==
    {t \in TokenUniverse : \E c \in store : c.client_id = t.client}

----------------------------------------------------------------------------
(* The forms (provider/oauth2/forms.py)                                    *)

\* ClientAuthForm(data) against the Client table store: the clients that
\* client_id and client_secret of data validate; an absent or empty client_id validates none, an absent
\* client_secret is compared as the empty secret
ClientAuthForm(data, store) ==
    LET id == Get(data, "client_id")
        secret == IF Has(data, "client_secret")
                  THEN Get(data, "client_secret") ELSE <<>>
    IN  {c \in store : /\ Has(data, "client_id")
                       /\ id # <<>>
                       /\ c.client_id = id
                       /\ c.client_secret = secret}

\* PublicPasswordGrantForm(data): the public clients that client_id of data
\* names, when grant_type is "password"
PublicPasswordGrantForm(data, store) ==
    {c \in store : /\ Has(data, "grant_type")
                   /\ Get(data, "grant_type") = s_password
                   /\ Has(data, "client_id")
                   /\ c.client_id = Get(data, "client_id")
                   /\ c.client_type = "public"}

\* form.is_valid()
is_valid(form) == form # {}

\* form.cleaned_data.get('client')
cleaned_client(form) == CHOOSE c \in form : TRUE

----------------------------------------------------------------------------
(* The backends.  A call ends in [ret, exc]: the value returned and ""      *)
(* or the name of the exception that escaped.                              *)

Return(v) == [ret |-> v, exc |-> ""]
Raise(e) == [ret |-> None, exc |-> e]

\* BasicClientBackend reading request.META under a key no header is stored
\* under: auth is always None
BasicClientBackend_wrong_key(request, store) ==
    IF request = None THEN Raise("AttributeError") ELSE Return(None)

\* BasicClientBackend.authenticate(request)
BasicClientBackend(request, store) ==
    IF request = None
    THEN Raise("AttributeError")
    ELSE LET auth == Get(request.META, "HTTP_AUTHORIZATION") IN
    IF ~Has(request.META, "HTTP_AUTHORIZATION") \/ auth = <<>>
    THEN Return(None)
    ELSE LET parts == split(auth, SPACE) IN
    IF Len(parts) # 2
    THEN Return(None)
    ELSE LET base64_bytes == standard_b64decode(parts[2]) IN
    IF ~base64_bytes.ok
    THEN Return(None)
    ELSE LET base64_str == utf8_decode(base64_bytes.val, 1, <<>>) IN
    IF ~base64_str.ok
    THEN Return(None)
    ELSE LET cred == split(base64_str.val, COLON) IN
    IF Len(cred) # 2
    THEN Return(None)
    ELSE LET form == ClientAuthForm({<<"client_id", cred[1]>>,
                                     <<"client_secret", cred[2]>>},
                                    store) IN
    IF is_valid(form) THEN Return(cleaned_client(form)) ELSE Return(None)

\* RequestParamsClientBackend.authenticate(request)
RequestParamsClientBackend(request, store) ==
    IF request = None
    THEN Return(None)
    ELSE LET form == ClientAuthForm(request.REQUEST, store) IN
         IF is_valid(form) THEN Return(cleaned_client(form)) ELSE Return(None)

\* PublicPasswordBackend validating with ClientAuthForm, the form of the
\* backend above it
PublicPasswordBackend_ClientAuthForm(request, store) ==
    IF request = None
    THEN Return(None)
    ELSE LET form == ClientAuthForm(request.REQUEST, store) IN
         IF is_valid(form) THEN Return(cleaned_client(form)) ELSE Return(None)

\* PublicPasswordBackend.authenticate(request)
PublicPasswordBackend(request, store) ==
    IF request = None
    THEN Return(None)
    ELSE LET form == PublicPasswordGrantForm(request.REQUEST, store) IN
         IF is_valid(form) THEN Return(cleaned_client(form)) ELSE Return(None)

\* The chain of the endpoint: the backends in order, the first client wins;
\* an exception of a backend ends the chain
authenticate(request, store) ==
    LET basic == BasicClientBackend(request, store)
        params == RequestParamsClientBackend(request, store)
        public == PublicPasswordBackend(request, store)
    IN  IF basic.exc # "" \/ basic.ret # None THEN basic
        ELSE IF params.exc # "" \/ params.ret # None THEN params
        ELSE public

\* the query without its expires filter
AccessTokenQuery_no_expiry(access_token, client, now) ==
    {t \in tokens : /\ t.token = access_token
                    /\ client # None
                    /\ t.client = client.client_id}

\* the query with expires__gte in place of expires__gt
AccessTokenQuery_gte(access_token, client, now) ==
    {t \in tokens : /\ t.token = access_token
                    /\ t.expires >= now
                    /\ client # None
                    /\ t.client = client.client_id}

\* AccessToken.objects.get(token=access_token, expires__gt=now(),
\* client=client): the records the query matches
AccessTokenQuery(access_token, client, now) ==
    {t \in tokens : /\ t.token = access_token
                    /\ t.expires > now
                    /\ client # None
                    /\ t.client = client.client_id}

\* AccessTokenBackend.authenticate(access_token, client)
AccessTokenBackend(access_token, client) ==
    LET found == AccessTokenQuery(access_token, client, clock) IN
    IF found = {} THEN Return(None)
    ELSE IF Cardinality(found) > 1 THEN Raise("MultipleObjectsReturned")
    ELSE Return(CHOOSE t \in found : TRUE)

----------------------------------------------------------------------------
(* The requests offered to the backends                                    *)

\* the header a client builds: scheme, one space, payload
Header(scheme, payload) == scheme \o <<SPACE>> \o payload

\* base64(id:secret)
Credential(id, secret) ==
    b64encode(utf8_encode(id \o <<COLON>> \o secret))

CredentialPairs ==
    { <<s_abc, s_s3cr3t>>, <<s_abc, s_p_w>>, <<s_b, s_p_w>>,
      <<s_pub1, s_key>>, <<s_zzz, s_s3cr3t>>, <<<<>>, s_s3cr3t>>,
      <<s_abc, <<>>>> }

Schemes == {s_Basic, s_basic, s_Bearer}

WellFormedHeaders ==
    {Header(s, Credential(p[1], p[2])) : s \in Schemes, p \in CredentialPairs}

GoodPayload == Credential(s_abc, s_s3cr3t)

MalformedPayloads ==
    { <<33, 33, 33, 110, 111, 116, 98, 54, 52>>,      \* "!!!notb64"
      <<33>> \o GoodPayload,                          \* a stray '!' first
      SubSeq(GoodPayload, 1, Len(GoodPayload) - 1),   \* one '=' short
      <<233>> \o GoodPayload,                         \* a non-ASCII character
      b64encode(<<255, COLON, 97>>),                  \* bytes that are no UTF-8
      b64encode(utf8_encode(s_abc)),                  \* no ':'
      <<>> }

MalformedHeaders ==
    {Header(s_Basic, p) : p \in MalformedPayloads}
    \cup { s_Basic,                                            \* no space
           s_Basic \o <<SPACE, SPACE>> \o GoodPayload,         \* two spaces
           Header(s_Basic, GoodPayload) \o <<SPACE>>,          \* a third part
           <<SPACE>> \o GoodPayload }                          \* no scheme

Meta(h) == {<<"HTTP_AUTHORIZATION", h>>}

\* request.META: no Authorization header, an empty one, or one of the above
Metas ==
    {{}} \cup {Meta(h) : h \in WellFormedHeaders \cup MalformedHeaders
                              \cup {<<>>}}

\* the headers offered together with request parameters
ChainMetas ==
    {{}} \cup { Meta(Header(s_Basic, GoodPayload)),
                Meta(Header(s_Bearer, GoodPayload)),
                Meta(Header(s_Basic, Credential(s_abc, s_p_w))),
                Meta(Header(s_Basic, Credential(s_b, s_p_w))) }

Param(key, values) == {{}} \cup {{<<key, v>>} : v \in values}

\* request.REQUEST: each of client_id, client_secret and grant_type absent
\* or present
Params ==
    { i \cup s \cup g :
        i \in Param("client_id", {s_abc, s_pub1, s_zzz, <<>>}),
        s \in Param("client_secret", {s_s3cr3t, s_key}),
        g \in Param("grant_type", {s_password, s_authorization_code}) }

Request(meta, params) == [META |-> meta, REQUEST |-> params]

\* BasicClientBackend reads request.META alone
HeaderRequests == {Request(m, {}) : m \in Metas}

\* RequestParamsClientBackend and PublicPasswordBackend read request.REQUEST
\* alone
ParamRequests == {Request({}, q) : q \in Params}

\* the chain reads both
ChainRequests == {Request(m, q) : m \in ChainMetas, q \in Params}

\* the token strings presented to AccessTokenBackend (a str each; the default
\* access_token=None is not among them)
AccessTokens == {s_tok1, s_tok2, s_tok3, s_x}

\* the Client tables the model starts from: every client registered, or
\* ClientA alone
ClientStores == {ClientUniverse, {ClientA}}

\* Each backend's outcome for every store and request of the model, computed
\* once (@@ makes TLC tabulate the function)
BasicOutcomes ==
    [in \in ClientStores \X (HeaderRequests \cup {None}) |->
        BasicClientBackend(in[2], in[1])] @@ <<>>

RequestParamsOutcomes ==
    [in \in ClientStores \X (ParamRequests \cup {None}) |->
        RequestParamsClientBackend(in[2], in[1])] @@ <<>>

PublicPasswordOutcomes ==
    [in \in ClientStores \X (ParamRequests \cup {None}) |->
        PublicPasswordBackend(in[2], in[1])] @@ <<>>

ChainOutcomes ==
    [in \in ClientStores \X ChainRequests |-> authenticate(in[2], in[1])] @@ <<>>

----------------------------------------------------------------------------
(* The state machine: the stores, the clock, and the last call with what   *)
(* it returned (op, args, ret, exc) and the value of now() it read (at)    *)

Init ==
    /\ clients \in ClientStores
    /\ tokens = TokensOf(clients)
    /\ clock = 0
    /\ op = "init"
    /\ args = None
    /\ ret = None
    /\ exc = ""
    /\ at = None

Called(name, input, outcome, now) ==
    /\ op' = name
    /\ args' = input
    /\ ret' = outcome.ret
    /\ exc' = outcome.exc
    /\ at' = now

BasicClientBackend_authenticate(request) ==
    /\ Called("BasicClientBackend", request, BasicOutcomes[<<clients, request>>],
              None)
    /\ UNCHANGED <<clients, tokens, clock>>

RequestParamsClientBackend_authenticate(request) ==
    /\ Called("RequestParamsClientBackend", request,
              RequestParamsOutcomes[<<clients, request>>], None)
    /\ UNCHANGED <<clients, tokens, clock>>

PublicPasswordBackend_authenticate(request) ==
    /\ Called("PublicPasswordBackend", request,
              PublicPasswordOutcomes[<<clients, request>>], None)
    /\ UNCHANGED <<clients, tokens, clock>>

Chain_authenticate(request) ==
    /\ Called("authenticate", request, ChainOutcomes[<<clients, request>>], None)
    /\ UNCHANGED <<clients, tokens, clock>>

\* AccessTokenBackend.authenticate deleting the expired records it meets
AccessTokenBackend_authenticate_sweep(access_token, client) ==
    /\ Called("AccessTokenBackend",
              [access_token |-> access_token, client |-> client],
              AccessTokenBackend(access_token, client), clock)
    /\ tokens' = {t \in tokens : t.expires > clock}
    /\ UNCHANGED <<clients, clock>>

AccessTokenBackend_authenticate(access_token, client) ==
    /\ Called("AccessTokenBackend",
              [access_token |-> access_token, client |-> client],
              AccessTokenBackend(access_token, client), clock)
    /\ UNCHANGED <<clients, tokens, clock>>

\* time passes: now() only grows
Tick ==
    /\ clock < MaxClock
    /\ clock' = clock + 1
    /\ UNCHANGED <<clients, tokens, op, args, ret, exc, at>>

Next ==
    \/ \E request \in HeaderRequests \cup {None} :
           BasicClientBackend_authenticate(request)
    \/ \E request \in ParamRequests \cup {None} :
           \/ RequestParamsClientBackend_authenticate(request)
           \/ PublicPasswordBackend_authenticate(request)
    \/ \E request \in ChainRequests : Chain_authenticate(request)
    \/ \E access_token \in AccessTokens, client \in clients \cup {None} :
           AccessTokenBackend_authenticate(access_token, client)
    \/ Tick

Spec == Init /\ [][Next]_vars

----------------------------------------------------------------------------
(* Properties                                                              *)

\* the request of the last call carries the Authorization header h
IsAuth(h) ==
    /\ Has(args.META, "HTTP_AUTHORIZATION")
    /\ Get(args.META, "HTTP_AUTHORIZATION") = h

\* the Authorization header of the request of the last call, when it has one
auth == Get(args.META, "HTTP_AUTHORIZATION")

\* the request of the last call carries the parameter key with value v
IsParam(key, v) == Has(args.REQUEST, key) /\ Get(args.REQUEST, key) = v

BasicCalled == op = "BasicClientBackend" /\ args # None

\* the header 'Basic ' + base64(id:secret) of a client
BasicHeaderOf(c) == Header(s_Basic, Credential(c.client_id, c.client_secret))

HasColon(s) == \E i \in 1..Len(s) : s[i] = COLON

\* C1: BasicClientBackend.authenticate returns the registered client c for
\* the header 'Basic ' + base64(c.client_id:c.client_secret).
C1_BasicReturnsClient ==
    BasicCalled =>
        \A c \in clients :
            IsAuth(BasicHeaderOf(c)) => exc = "" /\ ret = c

\* C2: BasicClientBackend.authenticate returns None for every header whose
\* token before the space is not the literal 'Basic'.
C2_OnlyBasicScheme ==
    ( /\ BasicCalled
      /\ Has(args.META, "HTTP_AUTHORIZATION")
      /\ split(auth, SPACE)[1] # s_Basic )
        => exc = "" /\ ret = None

\* the record of the store that the arguments of the last call name
Bound(t) ==
    /\ t.token = args.access_token
    /\ args.client # None
    /\ t.client = args.client.client_id

\* C3: AccessTokenBackend.authenticate returns a record iff the store holds
\* one with that token and that client whose expires is strictly after the
\* time of the call, and the record returned is that one.
C3_ValidIffUnexpired ==
    op = "AccessTokenBackend" =>
        /\ exc = ""
        /\ ret # None <=> \E t \in tokens : Bound(t) /\ t.expires > at
        /\ ret # None => ret \in tokens /\ Bound(ret) /\ ret.expires > at

C3_Witness ==
    /\ op = "AccessTokenBackend"
    /\ ret # None
    /\ \E t \in tokens : t.token = args.access_token /\ t # ret

\* C4: each of the three client backends, called with no request, returns
\* None and raises nothing.
C4_MissingRequest ==
    ( /\ op \in {"BasicClientBackend", "RequestParamsClientBackend",
                 "PublicPasswordBackend"}
      /\ args = None )
        => exc = "" /\ ret = None

\* C5: BasicClientBackend.authenticate splits the decoded payload at the
\* first ':', so a registered client whose secret holds a ':' is returned
\* for the header that carries base64(id:secret).
C5_SplitAtFirstColon ==
    BasicCalled =>
        \A c \in clients :
            (HasColon(c.client_secret) /\ IsAuth(BasicHeaderOf(c)))
                => exc = "" /\ ret = c

\* a payload that is base64 as RFC 4648 writes it: whole quads of alphabet
\* characters, the last one padded with at most two '='
WellFormedBase64(p) ==
    /\ Len(p) % 4 = 0
    /\ \A i \in 1..Len(p) :
           \/ b64index(p[i]) < 64
           \/ /\ p[i] = PAD
              /\ i >= Len(p) - 1
              /\ p[Len(p)] = PAD

\* a header that is not scheme, one space, base64 of UTF-8 text with a ':'
Malformed(h) ==
    LET parts == split(h, SPACE) IN
    \/ Len(parts) # 2
    \/ ~WellFormedBase64(parts[2])
    \/ LET bytes == standard_b64decode(parts[2]) IN
       \/ ~bytes.ok
       \/ LET text == utf8_decode(bytes.val, 1, <<>>) IN
          ~text.ok \/ ~HasColon(text.val)

\* C6: BasicClientBackend.authenticate returns None, and raises nothing, for
\* every non-empty header that is malformed: not two parts, a payload that
\* is not base64, bytes that are not UTF-8, or text without ':'.
C6_MalformedIsNone ==
    ( /\ BasicCalled
      /\ Has(args.META, "HTTP_AUTHORIZATION")
      /\ auth # <<>>
      /\ Malformed(auth) )
        => exc = "" /\ ret = None

\* C7: PublicPasswordBackend.authenticate returns a client exactly when
\* grant_type is 'password' and client_id names a registered client of type
\* 'public', and then returns that client whatever client_secret is.
C7_PublicPasswordOnly ==
    (op = "PublicPasswordBackend" /\ args # None) =>
        LET named == {c \in clients :
                         /\ IsParam("grant_type", s_password)
                         /\ IsParam("client_id", c.client_id)
                         /\ c.client_type = "public"}
        IN  /\ exc = ""
            /\ named = {} => ret = None
            /\ named # {} => ret \in named

C7_Witness ==
    /\ op = "PublicPasswordBackend"
    /\ args # None
    /\ ret # None
    /\ ret.client_type = "public"
    /\ ~IsParam("client_secret", ret.client_secret)

\* C8: between two calls of AccessTokenBackend.authenticate with the same
\* token and client, the store unchanged and the clock only forward: at the
\* same clock value the result is the same; a record returned is no longer
\* returned once the clock has reached its expires; and None returned for
\* an expired record stays None.
C8_ExpiryOverTime ==
    [][ ( /\ op = "AccessTokenBackend"
          /\ op' = "AccessTokenBackend"
          /\ args' = args )
        => /\ at' >= at
           /\ at' = at => ret' = ret
           /\ (ret # None /\ at' >= ret.expires) => ret' = None
           /\ (ret = None /\ \E t \in tokens : Bound(t) /\ t.expires <= at)
                  => ret' = None ]_vars

C8_Witness ==
    /\ op = "AccessTokenBackend"
    /\ ret = None
    /\ \E t \in tokens : Bound(t) /\ t.expires > 0 /\ t.expires <= at

C10_StoresUnchanged ==
    [][clients' = clients /\ tokens' = tokens]_vars

C10_Witness ==
    /\ op = "AccessTokenBackend"
    /\ ret = None
    /\ \E t \in tokens : Bound(t) /\ t.expires <= at
    /\ tokens = TokensOf(clients)

====
